---- MODULE Spec2Model ----
(***************************************************************************)
(* transcribe-KIT: the caption/tabular-to-dialogue converters of           *)
(* src/transcribe_kit/convert.py and the job monitor of                    *)
(* src/transcribe_kit/monitor_job.py.                                      *)
(*                                                                         *)
(* A Python str is a sequence of one-character strings, so that strip,     *)
(* split, join, upper, the "in" test and the speaker-tag regular           *)
(* expression are computed character by character as Python computes them. *)
(* A file read with readlines() is the sequence of its lines without the   *)
(* terminating "\n": the code uses a line only through strip() and the     *)
(* "-->" substring test, neither of which sees the terminator.             *)
(***************************************************************************)
EXTENDS Integers, Sequences, FiniteSets, TLC

(***************************************************************************)
(* Python builtins used by convert.py                                      *)
(***************************************************************************)

\* Python's None, comparable with any str of the model
None == <<"None">>

\* the characters str.strip() and str.split() treat as whitespace
IsSpace(c) == c \in {" ", "\t", "\n", "\r"}

RECURSIVE LStrip(_)
LStrip(s) ==
    IF s = <<>> THEN s
    ELSE IF IsSpace(Head(s)) THEN LStrip(Tail(s)) ELSE s

RECURSIVE RStrip(_)
RStrip(s) ==
    IF s = <<>> THEN s
    ELSE IF IsSpace(s[Len(s)]) THEN RStrip(SubSeq(s, 1, Len(s) - 1)) ELSE s

\* str.strip()
Strip(s) == RStrip(LStrip(s))

\* number of leading non-whitespace characters of s
RECURSIVE WordLen(_)
WordLen(s) ==
    IF s = <<>> THEN 0
    ELSE IF IsSpace(Head(s)) THEN 0 ELSE 1 + WordLen(Tail(s))

\* str.split() without argument: the maximal runs of non-whitespace
RECURSIVE Split(_)
Split(s) ==
    LET t == LStrip(s)
        n == WordLen(t)
    IN  IF t = <<>> THEN <<>>
        ELSE <<SubSeq(t, 1, n)>> \o Split(SubSeq(t, n + 1, Len(t)))

\* sep.join(parts)
RECURSIVE Join(_, _)
Join(sep, parts) ==
    IF parts = <<>> THEN <<>>
    ELSE IF Len(parts) = 1 THEN parts[1]
    ELSE parts[1] \o sep \o Join(sep, Tail(parts))

\* the concatenation of a list of strings (file.writelines)
RECURSIVE Concat(_)
Concat(parts) ==
    IF parts = <<>> THEN <<>> ELSE Head(parts) \o Concat(Tail(parts))

\* sub in s
Contains(sub, s) ==
    \E k \in 1..(Len(s) - Len(sub) + 1) : SubSeq(s, k, k + Len(sub) - 1) = sub

\* s.startswith(c) and s.endswith(c) for a one-character c
StartsWith(s, c) == s # <<>> /\ s[1] = c
EndsWith(s, c) == s # <<>> /\ s[Len(s)] = c

\* index of the first c in s, 0 when there is none
RECURSIVE Find(_, _)
Find(s, c) ==
    IF s = <<>> THEN 0
    ELSE IF Head(s) = c THEN 1
    ELSE LET r == Find(Tail(s), c) IN IF r = 0 THEN 0 ELSE r + 1

\* s.split(c) for a one-character separator c
RECURSIVE SplitOn(_, _)
SplitOn(s, c) ==
    LET k == Find(s, c)
    IN  IF k = 0 THEN <<s>>
        ELSE <<SubSeq(s, 1, k - 1)>> \o SplitOn(SubSeq(s, k + 1, Len(s)), c)

\* s.split(c, 1) when c is in s: the text before and after the first c
SplitFirst(s, c) ==
    LET k == Find(s, c)
    IN  <<SubSeq(s, 1, k - 1), SubSeq(s, k + 1, Len(s))>>

LowerCase ==
    <<"a", "b", "c", "d", "e", "f", "g", "h", "i", "j", "k", "l", "m",
      "n", "o", "p", "q", "r", "s", "t", "u", "v", "w", "x", "y", "z">>
UpperCase ==
    <<"A", "B", "C", "D", "E", "F", "G", "H", "I", "J", "K", "L", "M",
      "N", "O", "P", "Q", "R", "S", "T", "U", "V", "W", "X", "Y", "Z">>

UpperChar(c) ==
    IF \E k \in 1..Len(LowerCase) : LowerCase[k] = c
    THEN UpperCase[CHOOSE k \in 1..Len(LowerCase) : LowerCase[k] = c]
    ELSE c

\* str.upper()
Upper(s) == [k \in 1..Len(s) |-> UpperChar(s[k])]

(***************************************************************************)
(* clean_text and the speaker-tag regular expression                       *)
(***************************************************************************)

QUOTE == "\""

\* clean_text: strip, drop one pair of surrounding quotes, collapse whitespace
clean_text(text) ==
    LET t1 == Strip(text)
        t2 == IF StartsWith(t1, QUOTE) /\ EndsWith(t1, QUOTE)
              THEN SubSeq(t1, 2, Len(t1) - 1)
              ELSE t1
    IN  Join(<<" ">>, Split(t2))

\* length of the longest run of whitespace in s starting at index from
RECURSIVE SpaceSpan(_, _)
SpaceSpan(s, from) ==
    IF from > Len(s) THEN 0
    ELSE IF IsSpace(s[from]) THEN 1 + SpaceSpan(s, from + 1) ELSE 0

\* length of the longest run of characters other than ">" starting at from
RECURSIVE NameSpan(_, _)
NameSpan(s, from) ==
    IF from > Len(s) THEN 0
    ELSE IF s[from] # ">" THEN 1 + NameSpan(s, from + 1) ELSE 0

\* length of the longest run of characters other than "\n" starting at from
RECURSIVE DotSpan(_, _)
DotSpan(s, from) ==
    IF from > Len(s) THEN 0
    ELSE IF s[from] # "\n" THEN 1 + DotSpan(s, from + 1) ELSE 0

NoMatch == <<>>

\* re.match(r'<v\s+([^>]+)>\s*(.*)', cue_text): NoMatch, or <<group(1), group(2)>>.
\* \s+ is greedy and gives characters back until [^>]+ has at least one
\* character and is followed by ">".
speaker_match(cue_text) ==
    LET n == Len(cue_text)
        ws == SpaceSpan(cue_text, 3)
        Fits(k) == /\ NameSpan(cue_text, 3 + k) >= 1
                   /\ 3 + k + NameSpan(cue_text, 3 + k) <= n
        ks == {k \in 1..ws : Fits(k)}
    IN  IF n < 2 THEN NoMatch
        ELSE IF cue_text[1] # "<" \/ cue_text[2] # "v" THEN NoMatch
        ELSE IF ks = {} THEN NoMatch
        ELSE LET k == CHOOSE x \in ks : \A y \in ks : y <= x
                 close == 3 + k + NameSpan(cue_text, 3 + k)
                 rest == close + 1 + SpaceSpan(cue_text, close + 1)
             IN  <<SubSeq(cue_text, 3 + k, close - 1),
                   SubSeq(cue_text, rest, rest + DotSpan(cue_text, rest) - 1)>>

(***************************************************************************)
(* Text constants of convert.py                                            *)
(***************************************************************************)

\* "UNKNOWN", the speaker of a cue without speaker tag (line 112)
UNKNOWN ==
    <<"U", "N", "K", "N", "O", "W", "N">>

\* "-->", the mark of a timestamp line (lines 76, 84)
ARROW == <<"-", "-", ">">>

\* "==HIGHLIGHT==" (lines 168, 245)
HIGHLIGHT ==
    <<"=", "=", "H", "I", "G", "H", "L", "I", "G", "H", "T", "=", "=">>

\* the two lines every markdown file starts with (lines 152-153)
TITLE ==
    <<"#", " ", "I", "n", "t", "e", "r", "v", "i", "e", "w", " ", "T", "r",
      "a", "n", "s", "c", "r", "i", "p", "t", "\n", "\n">>
HINT ==
    <<"<", "!", "-", "-", " ", "U", "s", "e", " ", "=", "=", "H", "I", "G",
      "H", "L", "I", "G", "H", "T", "=", "=", "t", "e", "x", "t", "=", "=",
      "H", "I", "G", "H", "L", "I", "G", "H", "T", "=", "=", " ", "t", "o",
      " ", "m", "a", "r", "k", " ", "t", "e", "x", "t", " ", "f", "o", "r",
      " ", "h", "i", "g", "h", "l", "i", "g", "h", "t", "i", "n", "g", " ",
      "i", "n", " ", "P", "D", "F", " ", "-", "-", ">", "\n", "\n">>

(***************************************************************************)
(* State                                                                   *)
(***************************************************************************)
VARIABLES
    csv_file,           \* the input table as csv.DictReader yields it: rows [speaker, text]
    vtt_file,           \* the input caption document: its lines
    highlight_speaker,  \* the highlight_speaker argument of the markdown functions
    source,             \* how the two input files were produced (see Init)
    files,              \* the output files: name -> content, None while not written
    call,               \* index in Calls of the function being run
    pc,                 \* "start": not yet entered; "loop": in its main loop;
                        \* "raised": left by an exception
    lines,              \* local list lines (vtt and txt functions)
    i,                  \* local index i, 1-based (row index in the csv functions)
    current_speaker,    \* local current_speaker
    current_text,       \* local current_text
    output_lines,       \* local output_lines (markdown_lines in the markdown functions)
    hist                \* history, per output file: what each row/cue/line became

VARIABLES
    args,               \* monitor process -> the arguments of its monitor_and_download call
    proc,               \* monitor process -> its position, its clock, downloaded_files
    log_dir,            \* the files of get_log_dir(): name -> the lines appended so far
    disk,               \* the artifact files: path -> text, None while absent
    sent,               \* monitor process -> titles of the notifications sent so far
    seen,               \* history, per monitor process: states, requests, writes
    service,            \* the remote service and the network: what a request can come to
    status_data         \* the table of the last run of the status checker

converter ==
    <<csv_file, vtt_file, highlight_speaker, source, files, call, pc, lines, i,
      current_speaker, current_text, output_lines, hist>>

monitor == <<args, proc, log_dir, disk, sent, seen, service, status_data>>

vars == <<converter, monitor>>

inputs == <<csv_file, vtt_file, highlight_speaker, source>>

\* One conversion session: every converter is run once over the same two
\* input files, the text-to-markdown converter once on each dialogue file.
Calls ==
    << [fn |-> "convert_csv_to_txt", in |-> "in.csv", out |-> "csv.txt"],
       [fn |-> "convert_vtt_to_txt", in |-> "in.vtt", out |-> "vtt.txt"],
       [fn |-> "csv_to_markdown", in |-> "in.csv", out |-> "csv.md"],
       [fn |-> "vtt_to_markdown", in |-> "in.vtt", out |-> "vtt.md"],
       [fn |-> "txt_to_markdown", in |-> "csv.txt", out |-> "csv.txt.md"],
       [fn |-> "txt_to_markdown", in |-> "vtt.txt", out |-> "vtt.txt.md"] >>

OutputFiles == {Calls[k].out : k \in 1..Len(Calls)}

Running(fn) == call <= Len(Calls) /\ Calls[call].fn = fn
Finished == call > Len(Calls)
Done(out) == \E k \in 1..Len(Calls) : Calls[k].out = out /\ call > k

(***************************************************************************)
(* The merger: lines 38-54, repeated in each of the four converters        *)
(***************************************************************************)

\* f"{current_speaker}: {combined_text}\n"
DialogueLine(speaker, combined_text) ==
    speaker \o <<":", " ">> \o combined_text \o <<"\n">>

\* current_speaker.upper() == highlight_speaker.upper()
IsHighlighted(speaker) == Upper(speaker) = Upper(highlight_speaker)

\* the markdown block of a speaker, wrapped in highlight markers or not
MarkdownBlock(speaker, combined_text) ==
    IF IsHighlighted(speaker)
    THEN <<"\n">> \o HIGHLIGHT \o <<"*", "*">> \o speaker \o <<":", "*", "*", " ">>
         \o combined_text \o HIGHLIGHT \o <<"\n">>
    ELSE <<"\n", "*", "*">> \o speaker \o <<":", "*", "*", " ">>
         \o combined_text \o <<"\n">>

\* the block a converter appends: a dialogue line in convert_*_to_txt, a
\* markdown block in *_to_markdown
Block(fmt, speaker, combined_text) ==
    IF fmt = "dialogue" THEN DialogueLine(speaker, combined_text)
    ELSE MarkdownBlock(speaker, combined_text)

\* the content written to the output file: '\n'.join(output_lines) in
\* convert_*_to_txt, writelines(markdown_lines) in *_to_markdown
Render(fmt, out) ==
    IF fmt = "dialogue" THEN Join(<<"\n">>, out) ELSE Concat(out)

Merger ==
    [current_speaker |-> current_speaker, current_text |-> current_text,
     output_lines |-> output_lines]

\* Accumulate with the speakers compared ignoring case
AccumulateFolded(speaker, text, st, fmt) ==
    IF Upper(speaker) = Upper(st.current_speaker)
    THEN [st EXCEPT !.current_text = Append(@, text)]
    ELSE [current_speaker |-> speaker,
          current_text |-> <<text>>,
          output_lines |->
              IF st.current_speaker # None /\ st.current_text # <<>>
              THEN Append(st.output_lines,
                          Block(fmt, st.current_speaker, Join(<<" ">>, st.current_text)))
              ELSE st.output_lines]

\* Accumulate without the same-speaker test: every fragment starts a block
AccumulateAlways(speaker, text, st, fmt) ==
    [current_speaker |-> speaker,
     current_text |-> <<text>>,
     output_lines |->
         IF st.current_speaker # None /\ st.current_text # <<>>
         THEN Append(st.output_lines,
                     Block(fmt, st.current_speaker, Join(<<" ">>, st.current_text)))
         ELSE st.output_lines]

\* Accumulate starting a run with an empty list: the run's first text is lost
AccumulateLosing(speaker, text, st, fmt) ==
    IF speaker = st.current_speaker
    THEN [st EXCEPT !.current_text = Append(@, text)]
    ELSE [current_speaker |-> speaker,
          current_text |-> <<>>,
          output_lines |->
              IF st.current_speaker # None /\ st.current_text # <<>>
              THEN Append(st.output_lines,
                          Block(fmt, st.current_speaker, Join(<<" ">>, st.current_text)))
              ELSE st.output_lines]

\* lines 38-49: append to the run of the same speaker, or write the previous
\* speaker's block and start a new run
Accumulate(speaker, text, st, fmt) ==
    IF speaker = st.current_speaker
    THEN [st EXCEPT !.current_text = Append(@, text)]
    ELSE [current_speaker |-> speaker,
          current_text |-> <<text>>,
          output_lines |->
              IF st.current_speaker # None /\ st.current_text # <<>>
              THEN Append(st.output_lines,
                          Block(fmt, st.current_speaker, Join(<<" ">>, st.current_text)))
              ELSE st.output_lines]

\* FlushLast writing nothing: the run in progress at the end is forgotten
FlushLastForgotten(st, fmt) == st.output_lines

\* lines 51-54: write the last speaker's block
FlushLast(st, fmt) ==
    IF st.current_speaker # None /\ st.current_text # <<>>
    THEN Append(st.output_lines,
                Block(fmt, st.current_speaker, Join(<<" ">>, st.current_text)))
    ELSE st.output_lines

\* lines 26-54 applied to fragments that are already parsed: the output lines
RECURSIVE MergeFrom(_, _, _)
MergeFrom(frags, st, fmt) ==
    IF frags = <<>> THEN FlushLast(st, fmt)
    ELSE MergeFrom(Tail(frags),
                   Accumulate(Head(frags).speaker, Head(frags).text, st, fmt), fmt)

MergeAll(frags, fmt) ==
    MergeFrom(frags,
              [current_speaker |-> None, current_text |-> <<>>, output_lines |-> <<>>],
              fmt)

(***************************************************************************)
(* The caption parser: lines 74-112                                        *)
(***************************************************************************)

\* lines 74-77: the index of the first line containing "-->", or past the end
RECURSIVE SkipHeader(_, _)
SkipHeader(lns, at) ==
    IF at <= Len(lns) /\ ~Contains(ARROW, lns[at])
    THEN SkipHeader(lns, at + 1)
    ELSE at

\* CollectCue stopping after the first text line
CollectCueOneLine(lns, at, cue_text) ==
    IF at <= Len(lns) /\ Strip(lns[at]) # <<>>
    THEN [cue_text |-> cue_text \o Strip(lns[at]) \o <<" ">>, i |-> at + 1]
    ELSE [cue_text |-> cue_text, i |-> at]

\* lines 88-91: collect the text lines up to an empty line or the end
RECURSIVE CollectCue(_, _, _)
CollectCue(lns, at, cue_text) ==
    IF at <= Len(lns) /\ Strip(lns[at]) # <<>>
    THEN CollectCue(lns, at + 1, cue_text \o Strip(lns[at]) \o <<" ">>)
    ELSE [cue_text |-> cue_text, i |-> at]

\* ParseCue keeping the whole cue text as the text when the tag matches
ParseCueKeepingTag(lns, at) ==
    LET got == CollectCue(lns, at + 1, <<>>)
        cue_text == Strip(got.cue_text)
        m == speaker_match(cue_text)
    IN  [cue_text |-> cue_text,
         speaker |-> IF Len(m) = 0 THEN None ELSE Strip(m[1]),
         text |-> cue_text,
         i |-> got.i]

\* lines 85-103 for the timestamp line at index at: the cue's text, the
\* speaker and text parsed from it, and the index the inner loop stopped at
ParseCue(lns, at) ==
    LET got == CollectCue(lns, at + 1, <<>>)
        cue_text == Strip(got.cue_text)
        m == speaker_match(cue_text)
    IN  [cue_text |-> cue_text,
         speaker |-> IF Len(m) = 0 THEN None ELSE Strip(m[1]),
         text |-> IF Len(m) = 0 THEN cue_text ELSE Strip(m[2]),
         i |-> got.i]

\* lines 110-112: "if not speaker" is true of None and of the empty string
SpeakerOrUnknown(speaker) ==
    IF speaker = None \/ speaker = <<>> THEN UNKNOWN ELSE speaker

\* CueRound writing the run in progress when it meets a cue without text
CueRoundEndingRun(cue, st, fmt) ==
    IF cue.text = <<>>
    THEN [current_speaker |-> None, current_text |-> <<>>,
          output_lines |-> FlushLast(st, fmt)]
    ELSE Accumulate(SpeakerOrUnknown(cue.speaker), cue.text, st, fmt)

\* lines 105-125: a cue without text is skipped, any other is merged under
\* its speaker or under "UNKNOWN"
CueRound(cue, st, fmt) ==
    IF cue.text = <<>>
    THEN st
    ELSE Accumulate(SpeakerOrUnknown(cue.speaker), cue.text, st, fmt)

(***************************************************************************)
(* History: what the running call did with each row, cue or line.  It is   *)
(* written by the actions and read only by the properties.                 *)
(***************************************************************************)

\* a markdown block that starts with "\n==HIGHLIGHT=="
IsMarked(block) ==
    /\ Len(block) > Len(HIGHLIGHT)
    /\ SubSeq(block, 1, 1 + Len(HIGHLIGHT)) = <<"\n">> \o HIGHLIGHT

\* the block written when output_lines grew from st.output_lines to out
Written(st, out) ==
    IF Len(out) > Len(st.output_lines)
    THEN << [speaker |-> st.current_speaker,
             text |-> Join(<<" ">>, st.current_text),
             mark |-> IsMarked(out[Len(out)])] >>
    ELSE <<>>

Here == hist[Calls[call].out]

\* the index of the block that the run in progress will be written as
BlockIndex(st, out) == Len(Here.blocks) + Len(Written(st, out)) + 1

Record(fragment, st, out) ==
    [hist EXCEPT ![Calls[call].out] =
        [fragments |-> Here.fragments \o fragment,
         blocks |-> Here.blocks \o Written(st, out)]]

(***************************************************************************)
(* The job monitor: src/transcribe_kit/monitor_job.py                      *)
(*                                                                         *)
(* One process per launched monitor_and_download call.  Time is counted    *)
(* in whole seconds since the process read start_time.  A status answer    *)
(* is either a raised requests.exceptions.RequestException (no connection, *)
(* or an HTTP error status turned into one by raise_for_status) or a JSON  *)
(* object, of which the code reads the keys task_status and status.  A     *)
(* body that is no JSON object is outside the service's interface and is   *)
(* not among the answers.                                                  *)
(***************************************************************************)

\* job_id[:8]
Prefix(job_id) == SubSeq(job_id, 1, IF Len(job_id) < 8 THEN Len(job_id) ELSE 8)

\* log_dir / f"transcription_{job_id[:8]}.log"
LogFile(job_id) == <<"t", "r", "a", "n", "s", "c", "r", "i", "p", "t", "i", "o", "n",
       "_">> \o Prefix(job_id) \o <<".", "l", "o", "g">>

\* Path(output_dir) / f"transcription_{job_id[:8]}.vtt" (or .csv)
ArtifactPath(output_dir, job_id, ext) ==
    output_dir \o <<"/", "t", "r", "a", "n", "s", "c", "r", "i", "p", "t", "i", "o",
       "n", "_">> \o Prefix(job_id) \o <<".">> \o ext

VTT == <<"V", "T", "T">>
CSV == <<"C", "S", "V">>

\* the extension and the URL segment of a kind: "vtt", "csv"
Ext(kind) == IF kind = VTT THEN <<"v", "t", "t">> ELSE <<"c", "s", "v">>

Digit(n) == <<"0", "1", "2", "3", "4", "5", "6", "7", "8", "9">>[n + 1]

\* f"{remaining_hours:.1f}" for remaining_hours = seconds / 3600: tenths of
\* an hour, rounded as Python rounds the double (180 s is 0.05, which the
\* double just exceeds: "0.1").  Exact for 0 <= seconds < 540.
FormatHours(seconds) == <<"0", ".", Digit((seconds + 180) \div 360)>>

\* a status payload: the JSON object, a key it lacks held as None
Payload(task_status, status) == [task_status |-> task_status, status |-> status]

SUCCESS == <<"S", "U", "C", "C", "E", "S", "S">>
FAILURE == <<"F", "A", "I", "L", "U", "R", "E">>
PENDING == <<"P", "E", "N", "D", "I", "N", "G">>
completed == <<"c", "o", "m", "p", "l", "e", "t", "e", "d">>
failed == <<"f", "a", "i", "l", "e", "d">>

\* str(status): the dict as the f-string of line 91 prints it
ReprStatus(status) ==
    LET a == IF status.task_status = None THEN <<>>
             ELSE << <<"'", "t", "a", "s", "k", "_", "s", "t", "a", "t", "u", "s", "'",
       ":", " ", "'">> \o status.task_status \o <<"'">> >>
        b == IF status.status = None THEN <<>>
             ELSE << <<"'", "s", "t", "a", "t", "u", "s", "'", ":", " ", "'">> \o status.status \o <<"'">> >>
    IN  <<"{">> \o Join(<<",", " ">>, a \o b) \o <<"}">>

\* line 79: status_msg
StatusMsg(status, timeout_seconds, elapsed_time) ==
    <<"S", "t", "a", "t", "u", "s", ":", " ">>
    \o (IF status.task_status = None THEN UNKNOWN ELSE status.task_status)
    \o <<" ", "|", " ", "R", "e", "m", "a", "i", "n", "i", "n", "g", ":",
       " ">> \o FormatHours(timeout_seconds - elapsed_time) \o <<"h">>

\* line 51
StartedMsg(job_id, pid) ==
    <<"S", "t", "a", "r", "t", "e", "d", " ", "m", "o", "n", "i", "t",
       "o", "r", "i", "n", "g", " ", "j", "o", "b", " ">> \o job_id \o <<" ", "(", "P", "I", "D", ":", " ">> \o pid \o <<")">>

\* line 65
TimeoutMsg(job_id, timeout_hours) ==
    <<"T", "i", "m", "e", "o", "u", "t", " ", "r", "e", "a", "c", "h",
       "e", "d", " ", "a", "f", "t", "e", "r", " ">> \o timeout_hours \o <<" ", "h", "o", "u", "r", "s", ".", " ", "J", "o", "b", " ">>
    \o Prefix(job_id) \o <<" ", "m", "a", "y", " ", "s", "t", "i", "l", "l", " ", "b", "e",
       " ", "p", "r", "o", "c", "e", "s", "s", "i", "n", "g", ".">>

\* line 84
StillMonitoringMsg(status_msg) == <<"S", "t", "i", "l", "l", " ", "m", "o", "n", "i", "t", "o", "r",
       "i", "n", "g", " ", "-", " ">> \o status_msg

\* line 88
CompletedSuccessfullyMsg == <<"J", "o", "b", " ", "c", "o", "m", "p", "l", "e", "t", "e", "d",
       " ", "s", "u", "c", "c", "e", "s", "s", "f", "u", "l", "l", "y">>

\* line 91
FailureMsg(job_id, status) ==
    <<"J", "o", "b", " ">> \o Prefix(job_id) \o <<" ", "f", "a", "i", "l", "e", "d", ":", " ">> \o ReprStatus(status)

\* lines 116, 134
SavedMsg(kind, path) == kind \o <<" ", "f", "i", "l", "e", " ", "s", "a", "v", "e", "d", ":", " ">> \o path

\* lines 120, 138: the text of the exception is the environment's
ErrorText == <<"H", "T", "T", "P", "E", "r", "r", "o", "r">>
DownloadErrorMsg(kind) == <<"E", "r", "r", "o", "r", " ", "d", "o", "w", "n", "l", "o", "a",
       "d", "i", "n", "g", " ">> \o kind \o <<":", " ">> \o ErrorText

\* line 144
DownloadedMsg(job_id, downloaded_files) ==
    <<"J", "o", "b", " ">> \o Prefix(job_id) \o <<" ", "c", "o", "m", "p", "l", "e", "t", "e", "d", "!", " ", "D",
       "o", "w", "n", "l", "o", "a", "d", "e", "d", ":", " ">>
    \o Join(<<",", " ">>, downloaded_files)

\* line 148
NoDownloadMsg(job_id) ==
    <<"J", "o", "b", " ">> \o Prefix(job_id) \o <<" ", "c", "o", "m", "p", "l", "e", "t", "e", "d", " ", "b", "u",
       "t", " ", "f", "a", "i", "l", "e", "d", " ", "t", "o", " ", "d",
       "o", "w", "n", "l", "o", "a", "d", " ", "r", "e", "s", "u", "l",
       "t", "s">>

\* log_message opening the file to write, not to append
log_messageTruncating(log, log_file, timestamp, message, by) ==
    IF by \in service.broken.log THEN log
    ELSE [log EXCEPT ![log_file] =
             <<[timestamp |-> timestamp, message |-> message, by |-> by]>>]

\* lines 26-33: log_message appends one timestamped line to the file; a
\* write that fails is passed over (lines 32-33)
log_message(log, log_file, timestamp, message, by) ==
    IF by \in service.broken.log THEN log
    ELSE [log EXCEPT ![log_file] =
             Append(@, [timestamp |-> timestamp, message |-> message, by |-> by])]

\* lines 16-24: send_notification; a notification that fails is passed over
\* (lines 23-24)
send_notification(notes, by, title) ==
    IF by \in service.broken.notify THEN notes
    ELSE [notes EXCEPT ![by] = Append(@, title)]

\* config.py, lines 13-15: get_log_dir creates the log directory if it is
\* not there; FALSE when mkdir raises (a home directory that cannot be
\* written, a file of that name)
get_log_dir(by) == by \notin service.broken.dir

\* line 97 and line 101: time.sleep(30), time.sleep(60)
CheckEvery == 30
WaitOnError == 60

\* line 64
TimeoutReachedAtCeiling(elapsed_time, timeout_seconds) == elapsed_time >= timeout_seconds

TimeoutReached(elapsed_time, timeout_seconds) == elapsed_time > timeout_seconds

\* line 83
LogsThisCheck(elapsed_time) == elapsed_time % 60 < 30

\* Verdict leaving a payload with both signals undecided
VerdictUndecided(status) ==
    IF /\ status.task_status = SUCCESS \/ status.status = completed
       /\ status.task_status = FAILURE \/ status.status = failed
    THEN "Polling"
    ELSE IF status.task_status = SUCCESS \/ status.status = completed THEN "Succeeded"
    ELSE IF status.task_status = FAILURE \/ status.status = failed THEN "Failed"
    ELSE "Polling"

\* lines 86-96: what a received status payload makes of the run
VerdictFailureFirst(status) ==
    IF status.task_status = FAILURE \/ status.status = failed THEN "Failed"
    ELSE IF status.task_status = SUCCESS \/ status.status = completed THEN "Succeeded"
    ELSE "Polling"

Verdict(status) ==
    IF status.task_status = SUCCESS \/ status.status = completed THEN "Succeeded"
    ELSE IF status.task_status = FAILURE \/ status.status = failed THEN "Failed"
    ELSE "Polling"

\* lines 39-40
OutputDir(output_dir) ==
    IF output_dir = None THEN <<"~", "/", "D", "o", "w", "n", "l", "o", "a", "d", "s">> ELSE output_dir

\* the body the service sends for an artifact of a job
ArtifactText(job_id, kind) == kind \o <<" ", "o", "f", " ">> \o job_id

(***************************************************************************)
(* Inputs of the monitor                                                   *)
(***************************************************************************)
MaxTimeout == 2

\* --timeout values and timeout_hours * 3600 (line 43) for each
TimeoutChoices ==
    << [timeout_hours |-> <<"0", ".", "0", "1", "2", "5">>, timeout_seconds |-> 45],
       [timeout_hours |-> <<"0", ".", "0", "2", "5">>, timeout_seconds |-> 90],
       [timeout_hours |-> <<"0", ".", "0", "3", "7", "5">>, timeout_seconds |-> 135],
       [timeout_hours |-> <<"0", ".", "0", "5">>, timeout_seconds |-> 180] >>

TimeoutPool == {TimeoutChoices[k] : k \in 1..MaxTimeout}

\* job identifiers; the first two differ and share their first eight characters
JobPool ==
    { <<"3", "f", "2", "a", "9", "c", "1", "e", "-", "1">>, <<"3", "f", "2", "a", "9", "c", "1", "e", "-", "2">>, <<"b", "7", "d", "0", "4", "e", "5", "5", "-", "3">> }

DirPool == { None, <<"o", "u", "t">> }

JobArgs ==
    { [job_id |-> j, output_dir |-> d, timeout_hours |-> c.timeout_hours,
       timeout_seconds |-> c.timeout_seconds] :
      j \in JobPool, d \in DirPool, c \in TimeoutPool }

StatusPool ==
    { Payload(SUCCESS, None), Payload(None, completed),
      Payload(FAILURE, None), Payload(None, failed),
      Payload(PENDING, None), Payload(<<"s", "u", "c", "c", "e", "s", "s">>, <<"C", "o", "m", "p", "l", "e", "t", "e", "d">>),
      Payload(SUCCESS, failed), Payload(FAILURE, completed) }

NoJson == Payload(None, None)

\* what requests.get / raise_for_status / json() of lines 74-76 come to
StatusResponses ==
    { [raised |-> TRUE, json |-> NoJson] }
    \cup { [raised |-> FALSE, json |-> p] : p \in StatusPool }

\* seconds a status request takes
LatencyPool == {0, 15}

LogFiles == {LogFile(j) : j \in JobPool}
ArtifactPaths ==
    {ArtifactPath(OutputDir(d), j, Ext(k)) : d \in DirPool, j \in JobPool, k \in {VTT, CSV}}

\* what an artifact request and the write of its file come to: the file
\* saved, a RequestException (lines 119, 137), or an OSError of open()
\* or write(), which no except clause of the function catches
FetchOutcomes == {"saved", "RequestException", "OSError"}

\* every log write, notification and mkdir of the log directory succeeds
SoundSink == [dir |-> {}, log |-> {}, notify |-> {}]

\* the answers are not fixed beforehand
NoScript == [on |-> FALSE, status |-> <<>>, fetch |-> [vtt |-> "saved", csv |-> "saved"]]

\* the service and the network as one run finds them
AnyService ==
    [responses |-> StatusResponses, latencies |-> LatencyPool, outcomes |-> FetchOutcomes,
     script |-> NoScript, broken |-> SoundSink]

\* a service that answers every status request at once
PromptService ==
    [responses |-> { [raised |-> FALSE, json |-> Payload(SUCCESS, None)],
                     [raised |-> FALSE, json |-> Payload(FAILURE, None)],
                     [raised |-> FALSE, json |-> Payload(PENDING, None)] },
     latencies |-> {0},
     outcomes |-> FetchOutcomes,
     script |-> NoScript, broken |-> SoundSink]

NoService ==
    [responses |-> {}, latencies |-> {}, outcomes |-> {},
     script |-> NoScript, broken |-> SoundSink]

\* the status checker has not been run
NoTable == [rows |-> {}, current_time |-> 0, observed |-> <<>>]

\* no monitor has been launched
MonitorIdle ==
    /\ service = NoService
    /\ status_data = NoTable
    /\ args = <<>>
    /\ proc = <<>>
    /\ sent = <<>>
    /\ seen = <<>>
    /\ log_dir = [f \in LogFiles |-> <<>>]
    /\ disk = [p \in ArtifactPaths |-> None]

\* no conversion is under way
ConverterIdle ==
    /\ csv_file = <<>>
    /\ vtt_file = <<>>
    /\ highlight_speaker = <<"A">>
    /\ source = [kind |-> "none", pairs |-> <<>>]
    /\ files = [o \in OutputFiles |-> None]
    /\ hist = [o \in OutputFiles |-> [fragments |-> <<>>, blocks |-> <<>>]]
    /\ call = Len(Calls) + 1
    /\ pc = "start"
    /\ lines = <<>>
    /\ i = 1
    /\ current_speaker = None
    /\ current_text = <<>>
    /\ output_lines = <<>>

\* the processes of P, each at the first line of monitor_and_download
Launched(P, Jobs) ==
    /\ args \in [P -> Jobs]
    /\ \A s, t \in P : s # t => args[s].job_id # args[t].job_id
    /\ proc = [t \in P |-> [pc |-> "start", now |-> 0, downloaded_files |-> <<>>]]
    /\ sent = [t \in P |-> <<>>]
    /\ seen = [t \in P |-> [state |-> "Submitted", polls |-> <<>>,
                            artifact_requests |-> <<>>, artifact_writes |-> <<>>,
                            recorded_failures |-> <<>>, reported |-> <<>>]]
    /\ log_dir = [f \in LogFiles |-> <<>>]
    /\ disk = [p \in ArtifactPaths |-> None]
    /\ status_data = NoTable

(***************************************************************************)
(* monitor_and_download                                                    *)
(***************************************************************************)

RECURSIVE log_messages(_, _, _, _, _)
log_messages(log, log_file, timestamp, messages, by) ==
    IF messages = <<>> THEN log
    ELSE log_messages(log_message(log, log_file, timestamp, Head(messages), by),
                      log_file, timestamp, Tail(messages), by)

\* lines 97 and 101: the sleep that ends a round of the loop, none after
\* the break of line 89 or the return of line 95
WaitAlwaysLong(raised, verdict) ==
    IF raised THEN WaitOnError
    ELSE IF verdict = "Polling" THEN WaitOnError ELSE 0

WaitAlwaysShort(raised, verdict) ==
    IF raised THEN CheckEvery
    ELSE IF verdict = "Polling" THEN CheckEvery ELSE 0

Wait(raised, verdict) ==
    IF raised THEN WaitOnError
    ELSE IF verdict = "Polling" THEN CheckEvery ELSE 0

\* where the loop leaves the process: break (line 89), return (line 95),
\* or the next round
PositionRetrying(verdict) ==
    IF verdict = "Succeeded" THEN "vtt"
    ELSE "poll"

PositionFetching(verdict) ==
    IF verdict = "Succeeded" THEN "vtt"
    ELSE IF verdict = "Failed" THEN "vtt"
    ELSE "poll"

Position(verdict) ==
    IF verdict = "Succeeded" THEN "vtt"
    ELSE IF verdict = "Failed" THEN "returned"
    ELSE "poll"

\* what the next status request of process t can come to: any answer of the
\* service, or under a script the answer written for a request of that rank
\* (the last one for every later request)
Answers(t) ==
    IF ~service.script.on THEN service.responses
    ELSE LET k == Len(seen[t].polls) + 1
             n == Len(service.script.status)
         IN  {service.script.status[IF k <= n THEN k ELSE n]}

\* what the artifact request made at position here can come to
Outcomes(here) ==
    IF ~service.script.on THEN service.outcomes ELSE {service.script.fetch[here]}

\* Check taking a request that raised for a failure of the job
CheckFailingOnError(job, elapsed_time, response, latency) ==
    LET verdict == IF response.raised THEN "Failed" ELSE Verdict(response.json)
        slept == Wait(response.raised, verdict)
        status_msg == StatusMsg(response.json, job.timeout_seconds, elapsed_time)
    IN  [ verdict |-> verdict,
          pc |-> Position(verdict),
          at |-> elapsed_time + latency,
          slept |-> slept,
          messages |->
              IF response.raised THEN <<FailureMsg(job.job_id, response.json)>>
              ELSE (IF LogsThisCheck(elapsed_time)
                    THEN <<StillMonitoringMsg(status_msg)>> ELSE <<>>)
                   \o (IF verdict = "Succeeded" THEN <<CompletedSuccessfullyMsg>>
                       ELSE IF verdict = "Failed"
                       THEN <<FailureMsg(job.job_id, response.json)>>
                       ELSE <<>>),
          notes |-> IF verdict = "Failed"
                    THEN <<"Transcription Failed">> ELSE <<>> ]

\* lines 72-101: one status request and what follows it
Check(job, elapsed_time, response, latency) ==
    LET verdict == IF response.raised THEN "Polling" ELSE Verdict(response.json)
        slept == Wait(response.raised, verdict)
        status_msg == StatusMsg(response.json, job.timeout_seconds, elapsed_time)
    IN  [ verdict |-> verdict,
          pc |-> Position(verdict),
          at |-> elapsed_time + latency,
          slept |-> slept,
          messages |->
              IF response.raised THEN <<>>
              ELSE (IF LogsThisCheck(elapsed_time)
                    THEN <<StillMonitoringMsg(status_msg)>> ELSE <<>>)
                   \o (IF verdict = "Succeeded" THEN <<CompletedSuccessfullyMsg>>
                       ELSE IF verdict = "Failed"
                       THEN <<FailureMsg(job.job_id, response.json)>>
                       ELSE <<>>),
          notes |-> IF ~response.raised /\ verdict = "Failed"
                    THEN <<"Transcription Failed">> ELSE <<>> ]

\* lines 42-52; an exception of get_log_dir() at line 46 is caught nowhere
Start(t) ==
    /\ proc[t].pc = "start"
    /\ IF get_log_dir(t)
       THEN /\ proc' = [proc EXCEPT ![t].pc = "poll", ![t].now = 0]
            /\ log_dir' = log_message(log_dir, LogFile(args[t].job_id), 0,
                                      StartedMsg(args[t].job_id, <<Digit(t)>>), t)
            /\ sent' = send_notification(sent, t, "Transcription Monitor")
            /\ seen' = [seen EXCEPT ![t].state = "Polling"]
       ELSE /\ proc' = [proc EXCEPT ![t].pc = "raised", ![t].now = 0]
            /\ UNCHANGED <<log_dir, sent, seen>>
    /\ UNCHANGED <<converter, status_data, service, args, disk>>

\* lines 61-101: one round of the loop
Poll(t) ==
    /\ proc[t].pc = "poll"
    /\ LET job == args[t]
           elapsed_time == proc[t].now
       IN  IF TimeoutReached(elapsed_time, job.timeout_seconds)
           THEN /\ proc' = [proc EXCEPT ![t].pc = "returned"]
                /\ log_dir' = log_message(log_dir, LogFile(job.job_id), elapsed_time,
                                          TimeoutMsg(job.job_id, job.timeout_hours), t)
                /\ sent' = send_notification(sent, t, "Transcription Timeout")
                /\ seen' = [seen EXCEPT ![t].state = "TimedOut"]
           ELSE \E response \in Answers(t), latency \in service.latencies :
                    LET c == Check(job, elapsed_time, response, latency)
                    IN  /\ proc' = [proc EXCEPT ![t].pc = c.pc,
                                                ![t].now = c.at + c.slept]
                        /\ log_dir' = log_messages(log_dir, LogFile(job.job_id), c.at,
                                                   c.messages, t)
                        /\ sent' = IF c.notes = <<>> THEN sent
                                   ELSE send_notification(sent, t, c.notes[1])
                        /\ seen' = [seen EXCEPT
                               ![t].state = c.verdict,
                               ![t].polls = Append(@,
                                   [elapsed_time |-> elapsed_time,
                                    response |-> response,
                                    verdict |-> c.verdict,
                                    before |-> seen[t].state,
                                    ended |-> c.at,
                                    slept |-> c.slept])]
    /\ UNCHANGED <<converter, status_data, service, args, disk>>

\* lines 117 and 135
FetchedAlways(downloaded_files, kind, outcome) ==
    Append(downloaded_files, kind)

Fetched(downloaded_files, kind, outcome) ==
    IF outcome = "saved" THEN Append(downloaded_files, kind) ELSE downloaded_files

\* lines 106-122 (VTT) and 124-140 (CSV)
Download(t, kind, here, next) ==
    /\ proc[t].pc = here
    /\ \E outcome \in Outcomes(here) :
        LET job == args[t]
            path == ArtifactPath(OutputDir(job.output_dir), job.job_id, Ext(kind))
        IN  /\ proc' = [proc EXCEPT
                   ![t].pc = IF outcome = "OSError" THEN "raised" ELSE next,
                   ![t].downloaded_files = Fetched(@, kind, outcome)]
            /\ disk' = IF outcome = "saved"
                       THEN [disk EXCEPT ![path] = ArtifactText(job.job_id, kind)]
                       ELSE disk
            /\ log_dir' =
                   IF outcome = "saved"
                   THEN log_message(log_dir, LogFile(job.job_id), proc[t].now,
                                    SavedMsg(kind, path), t)
                   ELSE IF outcome = "RequestException"
                   THEN log_message(log_dir, LogFile(job.job_id), proc[t].now,
                                    DownloadErrorMsg(kind), t)
                   ELSE log_dir
            /\ seen' = [seen EXCEPT
                   ![t].artifact_requests = Append(@, kind),
                   ![t].artifact_writes =
                       IF outcome = "saved" THEN Append(@, kind) ELSE @,
                   ![t].recorded_failures =
                       IF outcome = "RequestException" THEN Append(@, kind) ELSE @]
    /\ UNCHANGED <<converter, status_data, service, args, sent>>

\* lines 143-150: the message of the final log entry
FinalMsgUnnamed(job_id, downloaded_files) ==
    IF downloaded_files # <<>> THEN DownloadedMsg(job_id, <<>>)
    ELSE NoDownloadMsg(job_id)

FinalMsg(job_id, downloaded_files) ==
    IF downloaded_files # <<>> THEN DownloadedMsg(job_id, downloaded_files)
    ELSE NoDownloadMsg(job_id)

\* lines 142-150
Report(t) ==
    /\ proc[t].pc = "report"
    /\ LET job == args[t]
           message == FinalMsg(job.job_id, proc[t].downloaded_files)
           title == IF proc[t].downloaded_files # <<>>
                    THEN "Transcription Complete!" ELSE "Download Failed"
       IN  /\ log_dir' = log_message(log_dir, LogFile(job.job_id), proc[t].now, message, t)
           /\ sent' = send_notification(sent, t, title)
           /\ seen' = [seen EXCEPT ![t].reported =
                           Append(@, [message |-> message, title |-> title,
                                      kinds |-> proc[t].downloaded_files])]
    /\ proc' = [proc EXCEPT ![t].pc = "returned"]
    /\ UNCHANGED <<converter, status_data, service, args, disk>>

\* a step of one of the running monitor processes
monitor_and_download ==
    \/ \E t \in DOMAIN args : Start(t)
    \/ \E t \in DOMAIN args : Poll(t)
    \/ \E t \in DOMAIN args : Download(t, VTT, "vtt", "csv")
    \/ \E t \in DOMAIN args : Download(t, CSV, "csv", "report")
    \/ \E t \in DOMAIN args : Report(t)

\* one monitor: python -m transcribe_kit.monitor_job JOB [-o DIR] [-t HOURS]
MonitorInit ==
    /\ ConverterIdle
    /\ service = AnyService
    /\ Launched({1}, JobArgs)

MonitorNext == monitor_and_download

\* the process runs until it returns: its requests are answered, its
\* sleeps end
MonitorSpec == MonitorInit /\ [][MonitorNext]_vars /\ WF_vars(MonitorNext)

\* two jobs submitted one after the other, each with its own monitor
\* (transcribe.py, launch_background_monitor); the first job and its
\* directory are fixed, the second job and its directory vary
FleetInit ==
    /\ ConverterIdle
    /\ service = PromptService
    /\ Launched({1, 2}, {a \in JobArgs : a.timeout_seconds = TimeoutChoices[1].timeout_seconds})
    /\ args[1].job_id = <<"3", "f", "2", "a", "9", "c", "1", "e", "-", "1">>
    /\ args[1].output_dir = None

FleetSpec == FleetInit /\ [][MonitorNext]_vars

\* longest list of status answers fixed beforehand
MaxScript == 2

\* status answers of a script: no answer, or a payload with a success
\* signal, a failure signal or neither
ScriptAnswers ==
    { [raised |-> TRUE, json |-> NoJson],
      [raised |-> FALSE, json |-> Payload(SUCCESS, None)],
      [raised |-> FALSE, json |-> Payload(FAILURE, None)],
      [raised |-> FALSE, json |-> Payload(PENDING, None)] }

Scripts ==
    { [on |-> TRUE, status |-> st, fetch |-> [vtt |-> a, csv |-> b]] :
      st \in [1..MaxScript -> ScriptAnswers], a \in FetchOutcomes, b \in FetchOutcomes }

\* what can be broken for the processes of P: the log directory cannot be
\* made, or every log write fails, or every notification, or both
BrokenSinks(P) ==
    { SoundSink,
      [dir |-> P, log |-> {}, notify |-> {}],
      [dir |-> {}, log |-> P, notify |-> {}],
      [dir |-> {}, log |-> {}, notify |-> P],
      [dir |-> {}, log |-> P, notify |-> P] }

\* two monitors whose requests get the same answers, request by request:
\* for the first every log write and notification succeeds, for the second
\* the sink may be broken
TwinInit ==
    /\ ConverterIdle
    /\ \E script \in Scripts, broken \in BrokenSinks({2}) :
           service = [responses |-> {}, latencies |-> {0}, outcomes |-> {},
                      script |-> script, broken |-> broken]
    /\ Launched({1, 2}, {a \in JobArgs : /\ a.timeout_seconds = TimeoutChoices[1].timeout_seconds
                                         /\ a.output_dir = None})
    /\ args[1].job_id = <<"3", "f", "2", "a", "9", "c", "1", "e", "-", "1">>
    /\ args[2].job_id = <<"b", "7", "d", "0", "4", "e", "5", "5", "-", "3">>

TwinSpec == TwinInit /\ [][MonitorNext]_vars

(***************************************************************************)
(* The status checker: src/transcribe_kit/check_status.py                  *)
(*                                                                         *)
(* A log file holds one line per entry; the checker reads the last line    *)
(* of each file and the clock.  The monitor counts time in seconds since   *)
(* its start_time, taken to be on the hour, and no run lasts an hour.      *)
(***************************************************************************)

\* the date and the hour of start_time
StartHour == <<"2", "0", "2", "6", "-", "1", "1", "-", "0", "4", " ", "0", "8",
       ":">>

TwoDigits(n) == <<Digit(n \div 10), Digit(n % 10)>>

\* monitor_job.py, line 28: time.strftime("%Y-%m-%d %H:%M:%S"), seconds
\* after start_time
strftime(seconds) ==
    StartHour \o TwoDigits(seconds \div 60) \o <<":">> \o TwoDigits(seconds % 60)

\* monitor_job.py, line 31: the line of an entry, without its "\n"
LogLine(entry) ==
    <<"[">> \o strftime(entry.timestamp) \o <<"]", " ">> \o entry.message

IsDigit(c) == \E n \in 0..9 : Digit(n) = c
DigitValue(c) == CHOOSE n \in 0..9 : Digit(n) = c

\* line 55: time.mktime(time.strptime(timestamp, "%Y-%m-%d %H:%M:%S")), in
\* seconds after start_time; not ok when strptime raises ValueError
mktime(timestamp) ==
    IF /\ Len(timestamp) = Len(StartHour) + 5
       /\ SubSeq(timestamp, 1, Len(StartHour)) = StartHour
       /\ \A k \in {1, 2, 4, 5} : IsDigit(timestamp[Len(StartHour) + k])
       /\ timestamp[Len(StartHour) + 3] = ":"
    THEN [ok |-> TRUE,
          seconds |->
              LET d(k) == DigitValue(timestamp[Len(StartHour) + k])
              IN  (10 * d(1) + d(2)) * 60 + 10 * d(4) + d(5)]
    ELSE [ok |-> FALSE, seconds |-> 0]

\* index of the first occurrence of sub in s, 0 when there is none
FindSub(s, sub) ==
    IF Contains(sub, s)
    THEN CHOOSE k \in 1..Len(s) :
             /\ SubSeq(s, k, k + Len(sub) - 1) = sub
             /\ \A j \in 1..(k - 1) : SubSeq(s, j, j + Len(sub) - 1) # sub
    ELSE 0

LowerChar(c) ==
    IF \E k \in 1..Len(UpperCase) : UpperCase[k] = c
    THEN LowerCase[CHOOSE k \in 1..Len(UpperCase) : UpperCase[k] = c]
    ELSE c

\* str.lower()
Lower(s) == [k \in 1..Len(s) |-> LowerChar(s[k])]

\* line 68 and line 73: minutes without an update after which a monitor
\* is shown as dead
DeadAfterMinutes == 3

\* lines 61-76: the status shown for a last message, minutes_over telling
\* whether minutes_since_update > 3
StatusOf(message, minutes_over) ==
    IF Contains(<<"c", "o", "m", "p", "l", "e", "t", "e", "d">>, Lower(message)) THEN "Completed"
    ELSE IF Contains(<<"f", "a", "i", "l", "e", "d">>, Lower(message)) THEN "Failed"
    ELSE IF Contains(<<"t", "i", "m", "e", "o", "u", "t">>, Lower(message)) THEN "Timeout"
    ELSE IF Contains(<<"m", "o", "n", "i", "t", "o", "r", "i", "n", "g">>, Lower(message))
    THEN (IF minutes_over THEN "Dead (no updates)" ELSE "Running")
    ELSE (IF minutes_over THEN "Dead (stale)" ELSE "Unknown")

\* line 35: log_path.stem.replace("transcription_", "")
JobIdOf(log_file) ==
    SubSeq(log_file, Len(<<"t", "r", "a", "n", "s", "c", "r", "i", "p", "t", "i", "o", "n",
       "_">>) + 1, Len(log_file) - Len(<<".", "l", "o", "g">>))

\* lines 35-78: the row of one log file that holds a line
Row(log_file, entries, current_time) ==
    LET last_line == Strip(LogLine(entries[Len(entries)]))
        cut == FindSub(last_line, <<"]", " ">>)
        timestamp == IF cut # 0 THEN SubSeq(last_line, 2, cut - 1)
                     ELSE <<"U", "n", "k", "n", "o", "w", "n">>
        message == IF cut # 0 THEN SubSeq(last_line, cut + 2, Len(last_line))
                   ELSE last_line
        log_time == mktime(timestamp)
        minutes_over ==
            IF log_time.ok
            THEN current_time - log_time.seconds > DeadAfterMinutes * 60
            ELSE TRUE
    IN  [job_id |-> JobIdOf(log_file),
         status |-> StatusOf(message, minutes_over),
         timestamp |-> timestamp,
         log_file |-> log_file]

\* the moments at which the checker can find the logs as they are: while a
\* monitor is running, up to the moment of its next step (the latest is
\* taken); when all have ended, the moment of the last step or any later
\* one (one more than three minutes later is taken)
Clock ==
    LET running == {t \in DOMAIN args : proc[t].pc \notin {"returned", "raised"}}
        last == CHOOSE n \in {proc[t].now : t \in DOMAIN args} :
                    \A t \in DOMAIN args : proc[t].now <= n
    IN  IF running # {}
        THEN {CHOOSE n \in {proc[t].now : t \in running} :
                  \A t \in running : n <= proc[t].now}
        ELSE {last, last + DeadAfterMinutes * 60 + 1}

\* lines 14-85: the table of one run of the checker over the log files
\* that exist (a file exists from its first entry on), with what the
\* monitors were at when it was made
check_all_transcriptions ==
    /\ \E f \in DOMAIN log_dir : log_dir[f] # <<>>
    /\ \E current_time \in Clock :
           status_data' = [rows |-> {Row(f, log_dir[f], current_time) :
                                  f \in {g \in DOMAIN log_dir : log_dir[g] # <<>>}},
                           current_time |-> current_time,
                           observed |-> [t \in DOMAIN args |->
                                            [pc |-> proc[t].pc,
                                       state |-> seen[t].state,
                                       artifact_writes |-> seen[t].artifact_writes]]]
    /\ UNCHANGED <<converter, args, proc, log_dir, disk, sent, seen, service>>

\* a service whose failure payload tells in words what went wrong
WatchService ==
    [responses |-> { [raised |-> TRUE, json |-> NoJson],
                     [raised |-> FALSE, json |-> Payload(SUCCESS, None)],
                     [raised |-> FALSE, json |-> Payload(PENDING, None)],
                     [raised |-> FALSE, json |-> Payload(FAILURE, None)],
                     [raised |-> FALSE,
                      json |-> Payload(FAILURE, <<"n", "o", "t", " ", "c", "o", "m", "p", "l", "e", "t", "e", "d">>)] },
     latencies |-> LatencyPool,
     outcomes |-> FetchOutcomes,
     script |-> NoScript, broken |-> SoundSink]

\* one monitor with a ceiling of three minutes (--timeout 0.05), and the
\* checker run at any moment: python -m transcribe_kit.check_status
WatchInit ==
    /\ ConverterIdle
    /\ service = WatchService
    /\ Launched({1}, { [job_id |-> <<"3", "f", "2", "a", "9", "c", "1", "e", "-", "1">>,
                        output_dir |-> None,
                        timeout_hours |-> TimeoutChoices[4].timeout_hours,
                        timeout_seconds |-> TimeoutChoices[4].timeout_seconds] })

WatchNext ==
    \/ monitor_and_download
    \/ check_all_transcriptions

WatchSpec == WatchInit /\ [][WatchNext]_vars

(***************************************************************************)
(* Input files                                                             *)
(***************************************************************************)

\* longest table / list of cues, and longest free-form caption document
MaxFrags == 3
MaxLines == 3

TIMING == <<"0", " ", "-", "-", ">", " ", "1">>
WEBVTT == <<"W", "E", "B", "V", "T", "T">>

\* (speaker, text) contents: two speakers, one of them padded, a speaker
\* differing only in case, an empty text, a blank speaker, a quoted text
\* holding a whitespace run, and a speaker holding a colon
PairPool ==
    { [speaker |-> <<"A">>, text |-> <<"x">>],
      [speaker |-> <<" ", "B", " ">>, text |-> <<"y">>],
      [speaker |-> <<"a">>, text |-> <<"z">>],
      [speaker |-> <<"A">>, text |-> <<>>],
      [speaker |-> <<" ">>, text |-> <<"w">>],
      [speaker |-> <<"B">>, text |-> <<QUOTE, "q", " ", " ", "r", QUOTE>>],
      [speaker |-> <<"A", ":", "B">>, text |-> <<"x">>] }

\* lines of a free-form caption document
LinePool ==
    { WEBVTT, <<>>, TIMING,
      <<"<", "v", " ", "A", ">", " ", "x">>,
      <<"y">>,
      <<"<", "v", " ", "B", ">">> }

SeqsUpTo(S, n) == UNION {[1..k -> S] : k \in 0..n}

\* the pairs as rows of a table with columns speaker and text
TabularRows(pairs) == pairs

\* the pairs as a caption document: header, then per pair a timestamp line,
\* a line "<v speaker> text" and an empty line
RECURSIVE CaptionCues(_)
CaptionCues(pairs) ==
    IF pairs = <<>> THEN <<>>
    ELSE << TIMING,
            <<"<", "v", " ">> \o Head(pairs).speaker \o <<">", " ">> \o Head(pairs).text,
            <<>> >> \o CaptionCues(Tail(pairs))

CaptionDocument(pairs) == <<WEBVTT, <<>>>> \o CaptionCues(pairs)

\* the caption document of the specification's example
ExampleDocument ==
    << WEBVTT,
       <<>>,
       <<"0", "0", ":", "0", "0", ":", "0", "0", ".", "0", "0", "0", " ", "-",
         "-", ">", " ", "0", "0", ":", "0", "0", ":", "0", "2", ".", "0", "0",
         "0">>,
       <<"<", "v", " ", "A", ">", " ", "H", "e", "l", "l", "o", " ", "t", "h",
         "e", "r", "e">>,
       <<>>,
       <<"0", "0", ":", "0", "0", ":", "0", "2", ".", "0", "0", "0", " ", "-",
         "-", ">", " ", "0", "0", ":", "0", "0", ":", "0", "3", ".", "0", "0",
         "0">>,
       <<"<", "v", " ", "A", ">", " ", "h", "o", "w", " ", "a", "r", "e", " ",
         "y", "o", "u">>,
       <<>>,
       <<"0", "0", ":", "0", "0", ":", "0", "3", ".", "0", "0", "0", " ", "-",
         "-", ">", " ", "0", "0", ":", "0", "0", ":", "0", "4", ".", "0", "0",
         "0">>,
       <<"<", "v", " ", "B", ">", " ", "F", "i", "n", "e", " ", "t", "h", "a",
         "n", "k", "s">> >>

\* a caption document with a header, a cue of two padded lines, a line of
\* whitespace ending it, a line outside any cue, and a cue whose only text
\* line is itself a timestamp line, ended by the end of the input
PaddedDocument ==
    << WEBVTT,
       TIMING,
       <<" ", "<", "v", " ", "A", ">", " ", "x", " ">>,
       <<"y", " ">>,
       <<" ">>,
       <<"<", "v", " ", "B", ">", " ", "z">>,
       TIMING,
       TIMING >>

HighlightPool == { <<"A">> }

\* longest table that lacks a column
MaxLacking == 2

\* tables whose header lacks the column text or the column speaker, as
\* csv.DictReader yields them: every row has the header's keys, and a table
\* may have a header only
LackingTables ==
    { [fieldnames |-> {"speaker"}, rows |-> rows] :
          rows \in SeqsUpTo({ [speaker |-> <<"A">>], [speaker |-> <<" ">>] }, MaxLacking) }
    \cup { [fieldnames |-> {"text"}, rows |-> rows] :
          rows \in SeqsUpTo({ [text |-> <<"x">>] }, MaxLacking) }

\* The input files hold the same contents as a table and as a caption
\* document ("pairs"), or a free-form caption document and an empty table
\* ("lines"), or the example document ("example"), or a table that lacks a
\* column and an empty caption document ("table").
Init ==
    /\ \/ \E pairs \in SeqsUpTo(PairPool, MaxFrags) :
            /\ source = [kind |-> "pairs", pairs |-> pairs]
            /\ csv_file = TabularRows(pairs)
            /\ vtt_file = CaptionDocument(pairs)
       \/ \E doc \in SeqsUpTo(LinePool, MaxLines) \cup {ExampleDocument, PaddedDocument} :
            /\ source = [kind |-> IF doc = ExampleDocument THEN "example" ELSE "lines",
                         pairs |-> <<>>]
            /\ csv_file = <<>>
            /\ vtt_file = doc
       \/ \E table \in LackingTables :
            /\ source = [kind |-> "table", pairs |-> <<>>, fieldnames |-> table.fieldnames]
            /\ csv_file = table.rows
            /\ vtt_file = <<>>
    /\ highlight_speaker \in HighlightPool
    /\ files = [o \in OutputFiles |-> None]
    /\ hist = [o \in OutputFiles |-> [fragments |-> <<>>, blocks |-> <<>>]]
    /\ call = 1
    /\ pc = "start"
    /\ lines = <<>>
    /\ i = 1
    /\ current_speaker = None
    /\ current_text = <<>>
    /\ output_lines = <<>>
    /\ MonitorIdle

(***************************************************************************)
(* The converters                                                          *)
(***************************************************************************)

SetMerger(st) ==
    /\ current_speaker' = st.current_speaker
    /\ current_text' = st.current_text
    /\ output_lines' = st.output_lines

\* entering a function: its locals before the main loop
Enter(lns, at, head) ==
    /\ pc = "start"
    /\ pc' = "loop"
    /\ lines' = lns
    /\ i' = at
    /\ current_speaker' = None
    /\ current_text' = <<>>
    /\ output_lines' = head
    /\ UNCHANGED <<inputs, files, call, hist>>

\* leaving a function: the output file is written and the locals are gone
Return(content) ==
    /\ files' = [files EXCEPT ![Calls[call].out] = content]
    /\ call' = call + 1
    /\ pc' = "start"
    /\ lines' = <<>>
    /\ i' = 1
    /\ current_speaker' = None
    /\ current_text' = <<>>
    /\ output_lines' = <<>>
    /\ UNCHANGED inputs

\* row['speaker'] and row['text'] (lines 31-32) raise KeyError on a row of a
\* table without that column
KeyError(row) == ~({"speaker", "text"} \subseteq DOMAIN row)

\* an exception nothing catches: the function is left where it stands, and
\* what it has not written stays unwritten
Raise ==
    /\ pc' = "raised"
    /\ UNCHANGED <<inputs, files, call, lines, i, current_speaker, current_text,
                   output_lines, hist>>

\* lines 30-49: one row of the table
TabularRow(fmt) ==
    /\ pc = "loop"
    /\ i <= Len(csv_file)
    /\ IF KeyError(csv_file[i])
       THEN Raise
       ELSE /\ LET row == csv_file[i]
                   speaker == Strip(row.speaker)
                   text == clean_text(row.text)
                   skip == text = <<>> \/ speaker = <<>>
                   st == IF skip THEN Merger ELSE Accumulate(speaker, text, Merger, fmt)
               IN  /\ SetMerger(st)
                   /\ hist' = Record(<< [raw |-> row.text, tag |-> speaker,
                                         speaker |-> speaker,
                                         text |-> text, kept |-> ~skip,
                                         block |-> IF skip THEN 0
                                                   ELSE BlockIndex(Merger, st.output_lines),
                                         at |-> i] >>,
                                     Merger, st.output_lines)
            /\ i' = i + 1
            /\ UNCHANGED <<inputs, files, call, pc, lines>>

\* lines 80-127: one round of the cue loop, at a timestamp line or not
CaptionLine(fmt) ==
    /\ pc = "loop"
    /\ i <= Len(lines)
    /\ IF ~Contains(ARROW, Strip(lines[i]))
       THEN /\ i' = i + 1
            /\ UNCHANGED <<current_speaker, current_text, output_lines, hist>>
       ELSE LET cue == ParseCue(lines, i)
                skip == cue.text = <<>>
                speaker == IF skip THEN cue.speaker ELSE SpeakerOrUnknown(cue.speaker)
                st == CueRound(cue, Merger, fmt)
            IN  /\ i' = cue.i + 1
                /\ SetMerger(st)
                /\ hist' = Record(<< [raw |-> cue.cue_text, tag |-> cue.speaker,
                                      speaker |-> speaker, text |-> cue.text,
                                      kept |-> ~skip,
                                      block |-> IF skip THEN 0
                                                ELSE BlockIndex(Merger, st.output_lines),
                                      at |-> i] >>,
                                  Merger, st.output_lines)
    /\ UNCHANGED <<inputs, files, call, pc, lines>>

\* lines 51-58: the last block, then the file
Finish(n, fmt) ==
    /\ pc = "loop"
    /\ i > n
    /\ LET out == FlushLast(Merger, fmt)
       IN  /\ hist' = Record(<<>>, Merger, out)
           /\ Return(Render(fmt, out))

convert_csv_to_txt ==
    /\ Running("convert_csv_to_txt")
    /\ UNCHANGED monitor
    /\ \/ Enter(<<>>, 1, <<>>)
       \/ TabularRow("dialogue")
       \/ Finish(Len(csv_file), "dialogue")

convert_vtt_to_txt ==
    /\ Running("convert_vtt_to_txt")
    /\ UNCHANGED monitor
    /\ \/ Enter(vtt_file, SkipHeader(vtt_file, 1), <<>>)
       \/ CaptionLine("dialogue")
       \/ Finish(Len(lines), "dialogue")

csv_to_markdown ==
    /\ Running("csv_to_markdown")
    /\ UNCHANGED monitor
    /\ \/ Enter(<<>>, 1, <<TITLE, HINT>>)
       \/ TabularRow("markdown")
       \/ Finish(Len(csv_file), "markdown")

vtt_to_markdown ==
    /\ Running("vtt_to_markdown")
    /\ UNCHANGED monitor
    /\ \/ Enter(vtt_file, SkipHeader(vtt_file, 1), <<TITLE, HINT>>)
       \/ CaptionLine("markdown")
       \/ Finish(Len(lines), "markdown")

\* lines 155-173: one line of the dialogue file
DialogueFileLine ==
    /\ pc = "loop"
    /\ i <= Len(lines)
    /\ LET line == Strip(lines[i])
           parts == SplitFirst(line, ":")
           speaker == Strip(parts[1])
           text == Strip(parts[2])
       IN  IF line = <<>>
           THEN UNCHANGED <<output_lines, hist>>
           ELSE IF Find(line, ":") # 0
           THEN /\ output_lines' = Append(output_lines, MarkdownBlock(speaker, text))
                /\ hist' = [hist EXCEPT ![Calls[call].out].blocks =
                               Append(@, [speaker |-> speaker, text |-> text,
                                          mark |-> IsMarked(MarkdownBlock(speaker, text))])]
           ELSE /\ output_lines' = Append(output_lines, line \o <<"\n">>)
                /\ hist' = [hist EXCEPT ![Calls[call].out].blocks =
                               Append(@, [speaker |-> None, text |-> line,
                                          mark |-> FALSE])]
    /\ i' = i + 1
    /\ UNCHANGED <<inputs, files, call, pc, lines, current_speaker, current_text>>

txt_to_markdown ==
    /\ Running("txt_to_markdown")
    /\ UNCHANGED monitor
    /\ \/ /\ files[Calls[call].in] # None
          /\ Enter(SplitOn(Strip(files[Calls[call].in]), "\n"), 1, <<TITLE, HINT>>)
       \/ DialogueFileLine
       \/ /\ pc = "loop"
          /\ i > Len(lines)
          /\ Return(Concat(output_lines))
          /\ UNCHANGED hist

Next ==
    \/ convert_csv_to_txt
    \/ convert_vtt_to_txt
    \/ csv_to_markdown
    \/ vtt_to_markdown
    \/ txt_to_markdown

Spec == Init /\ [][Next]_vars

(***************************************************************************)
(* Properties                                                              *)
(***************************************************************************)

DialogueFiles == {"csv.txt", "vtt.txt"}
MergedFiles == {"csv.txt", "vtt.txt", "csv.md", "vtt.md"}

Speakerless(f) == f.speaker = <<>> \/ f.speaker = None
NonEmpty(f) == ~Speakerless(f) /\ f.text # <<>>
Kept(f) == f.kept

\* the fragments of a call after the empty ones are removed, and those that
\* reached the merger
Filtered(out) == SelectSeq(hist[out].fragments, NonEmpty)
Merged(out) == SelectSeq(hist[out].fragments, Kept)

\* the positions at which a maximal run of equal speakers starts
RunStarts(fr) == {k \in 1..Len(fr) : k = 1 \/ fr[k].speaker # fr[k - 1].speaker}
RunCount(fr) == Cardinality(RunStarts(fr))

\* first and last position of the j-th run
RunFirst(fr, j) ==
    CHOOSE s \in RunStarts(fr) : Cardinality({x \in RunStarts(fr) : x <= s}) = j
RunLast(fr, j) ==
    IF j = RunCount(fr) THEN Len(fr) ELSE RunFirst(fr, j + 1) - 1

\* the texts of positions a..b joined by single spaces
RECURSIVE Spaced(_, _, _)
Spaced(fr, a, b) ==
    IF a > b THEN <<>>
    ELSE IF a = b THEN fr[a].text
    ELSE fr[a].text \o <<" ">> \o Spaced(fr, a + 1, b)

\* the dialogue file that holds one block per run, blocks separated by an
\* empty line
RECURSIVE RunsFile(_, _)
RunsFile(fr, j) ==
    IF j > RunCount(fr) THEN <<>>
    ELSE fr[RunFirst(fr, j)].speaker \o <<":", " ">>
         \o Spaced(fr, RunFirst(fr, j), RunLast(fr, j)) \o <<"\n">>
         \o (IF j < RunCount(fr) THEN <<"\n">> ELSE <<>>)
         \o RunsFile(fr, j + 1)

\* the number of blocks in a dialogue file: its non-empty lines
BlockCount(content) ==
    Cardinality({k \in 1..Len(SplitOn(content, "\n")) : SplitOn(content, "\n")[k] # <<>>})

\* every row of the table, and in a document made of pairs every cue, has
\* its fragment
EveryInputParsed(out) ==
    /\ out = "csv.txt" => Len(hist[out].fragments) = Len(csv_file)
    /\ out = "vtt.txt" /\ source.kind = "pairs" =>
           Len(hist[out].fragments) = Len(source.pairs)

C2_AdjacentBlocksDiffer ==
    \A out \in MergedFiles :
        Done(out) =>
            LET b == hist[out].blocks
                fr == Merged(out)
            IN  /\ \A k \in 1..(Len(b) - 1) : b[k].speaker # b[k + 1].speaker
                /\ \A k \in 1..Len(fr) :
                       /\ fr[k].block \in 1..Len(b)
                       /\ b[fr[k].block].speaker = fr[k].speaker
                /\ \A k, m, n \in 1..Len(fr) :
                       (k < m /\ m < n /\ fr[k].speaker = fr[n].speaker
                          /\ fr[m].speaker # fr[k].speaker)
                       => fr[k].block < fr[n].block

\* a speaker that comes back after another one has two blocks, and a speaker
\* differing only in case follows in a block of its own
C2_Witness ==
    /\ Finished
    /\ \A out \in MergedFiles :
           LET b == hist[out].blocks
           IN  /\ Len(b) = 3
               /\ b[1].speaker = b[3].speaker
               /\ b[2].speaker # b[1].speaker
               /\ Upper(b[2].speaker) = Upper(b[1].speaker)

\* C3: the file written by convert_csv_to_txt / convert_vtt_to_txt holds, in
\* input order, one block per run of the fragments that reached the merger,
\* and the text of a block is the texts of the fragments of its run, in input
\* order, joined by single spaces; the last run is there too.
C3_BlockTexts ==
    \A out \in DialogueFiles :
        Done(out) => files[out] = RunsFile(Merged(out), 1)

\* a run of two fragments followed by the last run, of one fragment
C3_Witness ==
    /\ Finished
    /\ \A out \in DialogueFiles :
           /\ Len(Merged(out)) = 3
           /\ RunStarts(Merged(out)) = {1, 3}
           /\ Len(hist[out].blocks) = 2

\* C4: merging is idempotent: the blocks a converter has written, fed to the
\* merger as one fragment per block, give the same blocks again.
C4_MergeIdempotent ==
    \A out \in DialogueFiles :
        Done(out) => Render("dialogue", MergeAll(hist[out].blocks, "dialogue")) = files[out]

\* blocks that were merged from more fragments than there are blocks
C4_Witness ==
    /\ Finished
    /\ \A out \in DialogueFiles :
           /\ Len(hist[out].blocks) = 2
           /\ Len(Merged(out)) = 3

\* C5: the same (speaker, text) contents, once as rows of a table and once
\* as cues "<v speaker> text", give the same blocks in convert_csv_to_txt and
\* convert_vtt_to_txt (stated for contents whose speakers are not blank).
C5_SameBlocks ==
    (/\ source.kind = "pairs"
     /\ Done("csv.txt") /\ Done("vtt.txt")
     /\ \A k \in 1..Len(source.pairs) : Strip(source.pairs[k].speaker) # <<>>)
    => hist["csv.txt"].blocks = hist["vtt.txt"].blocks

CaptionFiles == {"vtt.txt", "vtt.md"}

\* C6: a cue whose text is empty once the speaker tag is removed and the
\* rest trimmed is not merged and no fragment of it is written; the cue after
\* it is parsed at its own timestamp line; and two cues of one speaker with
\* only such cues between them are in one block.
C6_EmptyCueSkipped ==
    \A out \in CaptionFiles :
        Done(out) =>
            LET fr == hist[out].fragments
                b == hist[out].blocks
            IN  /\ \A k \in 1..Len(fr) : fr[k].text = <<>> => ~fr[k].kept
                /\ Len(b) = RunCount(Merged(out))
                /\ \A k, n \in 1..Len(fr) :
                       (/\ k < n /\ fr[k].kept /\ fr[n].kept
                        /\ fr[k].speaker = fr[n].speaker
                        /\ \A m \in (k + 1)..(n - 1) : ~fr[m].kept)
                       => fr[k].block = fr[n].block
                /\ source.kind = "pairs" =>
                       /\ Len(fr) = Len(source.pairs)
                       /\ \A k \in 1..Len(fr) :
                              /\ fr[k].at = 3 * k
                              /\ fr[k].kept <=> Strip(source.pairs[k].text) # <<>>

\* two cues of one speaker around a cue without text, in one block
C6_Witness ==
    /\ Finished
    /\ \A out \in CaptionFiles :
           LET fr == hist[out].fragments
           IN  /\ Len(fr) = 3
               /\ fr[1].kept /\ ~fr[2].kept /\ fr[3].kept
               /\ fr[2].text = <<>>
               /\ fr[1].block = fr[3].block
               /\ Len(hist[out].blocks) = 1

\* C7: in both parsers a fragment whose speaker is empty after trimming or
\* whose text is empty after cleaning never reaches the merger and is in no
\* block.
C7_EmptyNeverMerged ==
    \A out \in MergedFiles :
        \A k \in 1..Len(hist[out].fragments) :
            LET f == hist[out].fragments[k]
            IN  (f.tag = <<>> \/ f.text = <<>>) => (~f.kept /\ f.block = 0)

\* the cue text has the shape <v NAME> rest: "<v", whitespace, a NAME without
\* ">" of at least one character, ">"
HasSpeakerTag(raw) ==
    /\ Len(raw) >= 5
    /\ raw[1] = "<" /\ raw[2] = "v" /\ IsSpace(raw[3])
    /\ Find(raw, ">") >= 5
TagName(raw) == Strip(SubSeq(raw, 3, Find(raw, ">") - 1))
TagRest(raw) == Strip(SubSeq(raw, Find(raw, ">") + 1, Len(raw)))

\* C8: the fragment of a cue is (NAME trimmed, rest trimmed) when the cue text
\* has the shape <v NAME> rest, and ("UNKNOWN", the whole cue text) otherwise.
C8_CueFragment ==
    \A out \in CaptionFiles :
        \A k \in 1..Len(hist[out].fragments) :
            LET f == hist[out].fragments[k]
            IN  f.kept =>
                    IF HasSpeakerTag(f.raw)
                    THEN f.speaker = TagName(f.raw) /\ f.text = TagRest(f.raw)
                    ELSE f.speaker = UNKNOWN /\ f.text = f.raw

ExampleBlocks ==
    << [speaker |-> <<"A">>,
        text |-> <<"H", "e", "l", "l", "o", " ", "t", "h", "e", "r", "e", " ", "h", "o",
                   "w", " ", "a", "r", "e", " ", "y", "o", "u">>,
        mark |-> FALSE],
       [speaker |-> <<"B">>,
        text |-> <<"F", "i", "n", "e", " ", "t", "h", "a", "n", "k", "s">>,
        mark |-> FALSE] >>

\* C9: the example document (header WEBVTT, cues "<v A> Hello there",
\* "<v A> how are you", "<v B> Fine thanks") converts to exactly the blocks
\* (A, "Hello there how are you") and (B, "Fine thanks"), in this order.
C9_Example ==
    (source.kind = "example" /\ Done("vtt.txt")) =>
        /\ hist["vtt.txt"].blocks = ExampleBlocks
        /\ files["vtt.txt"] =
               DialogueLine(ExampleBlocks[1].speaker, ExampleBlocks[1].text) \o <<"\n">>
               \o DialogueLine(ExampleBlocks[2].speaker, ExampleBlocks[2].text)

\* the example document has been converted
C9_Witness ==
    /\ source.kind = "example"
    /\ Done("vtt.txt")
    /\ Len(hist["vtt.txt"].fragments) = 3

Matches(speaker) == Upper(speaker) = Upper(highlight_speaker)

\* C10: in every markdown path a block is wrapped in highlight markers if
\* and only if its speaker equals highlight_speaker ignoring case:
\* csv_to_markdown and vtt_to_markdown for the blocks they merge,
\* txt_to_markdown for the blocks of the dialogue file it reads.
C10_SameHighlight ==
    Finished =>
        /\ \A out \in {"csv.md", "vtt.md"} :
               \A k \in 1..Len(hist[out].blocks) :
                   hist[out].blocks[k].mark <=> Matches(hist[out].blocks[k].speaker)
        /\ \A c \in {k \in 1..Len(Calls) : Calls[k].fn = "txt_to_markdown"} :
               LET b == hist[Calls[c].in].blocks
                   md == hist[Calls[c].out].blocks
               IN  /\ Len(md) = Len(b)
                   /\ \A k \in 1..Len(b) : md[k].mark <=> Matches(b[k].speaker)

(***************************************************************************)
(* Properties of the job monitor                                           *)
(***************************************************************************)

Terminal == {"Succeeded", "Failed", "TimedOut"}

\* the process has left monitor_and_download, by return or by an exception
Ended(t) == proc[t].pc \in {"returned", "raised"}

StateOf(t) == seen[t].state
Polls(t) == seen[t].polls

\* the signals of a status payload, as the claims name them
SuccessSignal(json) == json.task_status = SUCCESS \/ json.status = completed
FailureSignal(json) == json.task_status = FAILURE \/ json.status = failed

\* a received payload that carries neither signal
Quiet(poll) ==
    /\ ~poll.response.raised
    /\ ~SuccessSignal(poll.response.json)
    /\ ~FailureSignal(poll.response.json)

AllQuiet(t) == \A k \in 1..Len(Polls(t)) : Quiet(Polls(t)[k])

\* the lines a process has written to its log file, oldest first
Entries(t) == SelectSeq(log_dir[LogFile(args[t].job_id)], LAMBDA e : e.by = t)
LastEntry(t) == Entries(t)[Len(Entries(t))]

Moves(a, b) ==
    \/ a = "Submitted" /\ b = "Polling"
    \/ a = "Polling" /\ b \in Terminal

StateStep ==
    \A t \in DOMAIN args :
        StateOf(t)' # StateOf(t) => Moves(StateOf(t), StateOf(t)')

C12_TimesOut ==
    /\ [](\A t \in DOMAIN args : AllQuiet(t))
          => <>(\A t \in DOMAIN args : StateOf(t) = "TimedOut")
    /\ [](\A t \in DOMAIN args :
            StateOf(t) = "TimedOut" => proc[t].now > args[t].timeout_seconds)
    /\ [][\A t \in DOMAIN args : StateOf(t) = "TimedOut" => Polls(t)' = Polls(t)]_vars

C12_Witness ==
    \E t \in DOMAIN args :
        /\ StateOf(t) = "TimedOut"
        /\ Len(Polls(t)) >= 2
        /\ AllQuiet(t)

\* C13: answers non-terminal, non-terminal, success: three status requests
\* in all; the first two leave the run in Polling and are followed by the
\* 30 s sleep, the third takes it to Succeeded with no sleep and no further
\* request.
C13_SuccessPath ==
    \A t \in DOMAIN args :
        LET p == Polls(t)
            one == Len(p) >= 1 /\ Quiet(p[1])
            two == one /\ Len(p) >= 2 /\ Quiet(p[2])
            three == two /\ Len(p) >= 3 /\ ~p[3].response.raised
                         /\ SuccessSignal(p[3].response.json)
        IN  /\ one => p[1].verdict = "Polling" /\ p[1].slept = CheckEvery
            /\ two => p[2].verdict = "Polling" /\ p[2].slept = CheckEvery
            /\ three => /\ Len(p) = 3
                        /\ p[3].before = "Polling"
                        /\ p[3].verdict = "Succeeded"
                        /\ p[3].slept = 0
                        /\ StateOf(t) = "Succeeded"
                        /\ proc[t].pc # "poll"

C13_Witness ==
    \E t \in DOMAIN args :
        /\ Len(Polls(t)) = 3
        /\ Quiet(Polls(t)[1])
        /\ Quiet(Polls(t)[2])
        /\ SuccessSignal(Polls(t)[3].response.json)
        /\ StateOf(t) = "Succeeded"

\* what a received payload does, but for the state it leads to
ReceivedRest(t, poll) ==
    /\ poll.verdict = "Polling" => poll.slept = CheckEvery
    /\ poll.verdict # "Polling" => poll.slept = 0
    /\ (poll.verdict = "Failed" /\ poll = Polls(t)[Len(Polls(t))])
           => Contains(ReprStatus(poll.response.json), LastEntry(t).message)

\* C14 as stated: a received payload leads to Succeeded exactly when it
\* carries the success signal, to Failed exactly when it carries the
\* failure signal (the payload in the logged message), and otherwise leaves
\* the run in Polling with the 30 s sleep.
C14_Mapping ==
    \A t \in DOMAIN args : \A k \in 1..Len(Polls(t)) :
        LET poll == Polls(t)[k]
        IN  ~poll.response.raised =>
                /\ poll.verdict = "Succeeded" <=> SuccessSignal(poll.response.json)
                /\ poll.verdict = "Failed" <=> FailureSignal(poll.response.json)
                /\ ReceivedRest(t, poll)

\* C14 amended: Failed exactly when the payload carries the failure signal
\* and not the success signal; the rest as stated.
C14_MappingSuccessFirst ==
    \A t \in DOMAIN args : \A k \in 1..Len(Polls(t)) :
        LET poll == Polls(t)[k]
        IN  ~poll.response.raised =>
                /\ poll.verdict = "Succeeded" <=> SuccessSignal(poll.response.json)
                /\ poll.verdict = "Failed" <=>
                       (FailureSignal(poll.response.json)
                        /\ ~SuccessSignal(poll.response.json))
                /\ ReceivedRest(t, poll)

C14_Witness ==
    \E t \in DOMAIN args :
        /\ Len(Polls(t)) >= 2
        /\ LET poll == Polls(t)[Len(Polls(t))]
           IN  /\ ~poll.response.raised
               /\ SuccessSignal(poll.response.json)
               /\ FailureSignal(poll.response.json)
               /\ StateOf(t) = "Succeeded"

\* C15: a status request that raises leaves the run in Polling, is followed
\* by the 60 s sleep, longer than the 30 s one, and by the next round of
\* the loop (the next request, or TimedOut when the ceiling has passed); no
\* request follows a payload with a failure signal, and no artifact is
\* requested twice.
C15_TransportRetry ==
    /\ WaitOnError > CheckEvery
    /\ \A t \in DOMAIN args : \A k \in 1..Len(Polls(t)) :
          LET poll == Polls(t)[k]
          IN  /\ poll.response.raised =>
                    /\ poll.before = "Polling"
                    /\ poll.verdict = "Polling"
                    /\ poll.slept = WaitOnError
                    /\ k = Len(Polls(t)) =>
                           proc[t].pc = "poll" \/ StateOf(t) = "TimedOut"
              /\ k < Len(Polls(t)) =>
                    \/ poll.response.raised
                    \/ ~FailureSignal(poll.response.json)
    /\ \A t \in DOMAIN args :
          \A a, b \in 1..Len(seen[t].artifact_requests) :
              a # b => seen[t].artifact_requests[a] # seen[t].artifact_requests[b]

C15_Witness ==
    \E t \in DOMAIN args :
        /\ Len(Polls(t)) >= 2
        /\ Polls(t)[1].response.raised
        /\ Polls(t)[2].elapsed_time >= WaitOnError

Range(s) == {s[k] : k \in 1..Len(s)}

\* Path(output_dir) / f"transcription_{job_id[:8]}.{kind}" of a process
PathOf(t, kind) ==
    ArtifactPath(OutputDir(args[t].output_dir), args[t].job_id, Ext(kind))

\* the kinds whose file is on disk with the text of the job
Persisted(t) ==
    {kind \in {VTT, CSV} : disk[PathOf(t, kind)] = ArtifactText(args[t].job_id, kind)}

\* the kinds the last log line of a process names
Named(t) == {kind \in {VTT, CSV} : Contains(kind, LastEntry(t).message)}

\* C16: while a run is not in Succeeded (and so when it has ended in Failed
\* or TimedOut) it has requested no artifact and written no artifact file.
C16_FetchOnlyAfterSuccess ==
    \A t \in DOMAIN args :
        StateOf(t) # "Succeeded" =>
            /\ seen[t].artifact_requests = <<>>
            /\ seen[t].artifact_writes = <<>>
            /\ Persisted(t) = {}

C16_Witness ==
    \E t \in DOMAIN args :
        /\ Ended(t)
        /\ StateOf(t) = "TimedOut"
        /\ Len(Polls(t)) >= 1
        /\ seen[t].artifact_requests = <<>>

\* C17: the final report names exactly the kinds whose file was persisted
\* (none, VTT only, CSV only, both), the kinds not persisted have their
\* failure on record, and with one request failed and the other file
\* saved it names one kind, one failure is on record and the file is on
\* disk.
C17_ReportMatchesDisk ==
    \A t \in DOMAIN args :
        seen[t].reported # <<>> =>
            /\ Len(seen[t].reported) = 1
            /\ LastEntry(t).message = seen[t].reported[1].message
            /\ Named(t) = Persisted(t)
            /\ Range(seen[t].reported[1].kinds) = Persisted(t)
            /\ Range(seen[t].artifact_writes) = Persisted(t)
            /\ Range(seen[t].recorded_failures) = {VTT, CSV} \ Persisted(t)
            /\ Persisted(t) = {} <=> seen[t].reported[1].title = "Download Failed"
            /\ Cardinality(Persisted(t)) = 1 =>
                   /\ Len(seen[t].reported[1].kinds) = 1
                   /\ Len(seen[t].recorded_failures) = 1

C17_Witness ==
    \E t \in DOMAIN args :
        /\ seen[t].reported # <<>>
        /\ Persisted(t) = {CSV}
        /\ Named(t) = {CSV}
        /\ seen[t].recorded_failures = <<VTT>>

\* C18 as stated: a run that reached Succeeded and has ended has attempted
\* both kinds, whatever became of the other attempt, and has emitted its
\* final report; the report comes after both attempts.
C18_BothAttemptedThenReport ==
    \A t \in DOMAIN args :
        /\ (Ended(t) /\ StateOf(t) = "Succeeded") =>
               /\ seen[t].artifact_requests = <<VTT, CSV>>
               /\ Len(seen[t].reported) = 1
        /\ seen[t].reported # <<>> => seen[t].artifact_requests = <<VTT, CSV>>

\* C19 as stated: the monitors of two jobs write no file in common: no log
\* file holds lines of two processes and no artifact path is written by
\* two processes.
C19_NothingShared ==
    /\ \A f \in LogFiles : \A a, b \in 1..Len(log_dir[f]) :
           log_dir[f][a].by = log_dir[f][b].by
    /\ \A s, t \in DOMAIN args :
           s # t =>
               \A j \in Range(seen[s].artifact_writes), k \in Range(seen[t].artifact_writes) :
                   PathOf(s, j) # PathOf(t, k)

\* the outcome of an ended run: its terminal state and the number of
\* artifacts it saved
Outcome(t) ==
    [state |-> StateOf(t), artifacts |-> Cardinality(Range(seen[t].artifact_writes))]

\* what the caller gets of an ended run: the return value of
\* monitor_and_download (None on every path that returns) or the
\* exception that ended it, and the last line of the log
Result(t) ==
    [value |-> IF proc[t].pc = "raised" THEN <<"OSError">> ELSE None,
     event |-> LastEntry(t).message]

\* C20: two ended runs with different outcomes (TimedOut, Failed, Succeeded
\* with two, one or no artifact) differ in their result: the return value
\* is the same, the final log line is not.
C20_Distinguishable ==
    \A s, t \in DOMAIN args :
        (Ended(s) /\ Ended(t) /\ Outcome(s) # Outcome(t)) => Result(s) # Result(t)

C20_Witness ==
    \E s, t \in DOMAIN args :
        /\ Prefix(args[s].job_id) = Prefix(args[t].job_id)
        /\ Ended(s) /\ Ended(t)
        /\ StateOf(s) = "Succeeded" /\ StateOf(t) = "Succeeded"
        /\ Outcome(s).artifacts = 1
        /\ Outcome(t).artifacts = 2
        /\ Result(s) # Result(t)

(***************************************************************************)
(* Properties of the converters on malformed input                         *)
(***************************************************************************)

\* the columns of the input table: reader.fieldnames
fieldnames ==
    IF "fieldnames" \in DOMAIN source THEN source.fieldnames ELSE {"speaker", "text"}

LacksColumn == ~({"speaker", "text"} \subseteq fieldnames)

\* a caption document without any timestamp line
NothingParsable(doc) == \A k \in 1..Len(doc) : ~Contains(ARROW, doc[k])

\* the call writing out was left by an exception
Raised(out) == call <= Len(Calls) /\ Calls[call].out = out /\ pc = "raised"

\* C21: a conversion of a table that lacks the speaker or the text column,
\* or of a caption document without any timestamp line, never returns and
\* never writes its output file, and once it has reached the end of such an
\* input it has failed; an output file that is written comes from an input
\* of which every row or cue was parsed.
C21_MalformedRejected ==
    /\ LacksColumn =>
           /\ files["csv.txt"] = None
           /\ ~Done("csv.txt")
    /\ (source.kind = "lines" /\ NothingParsable(vtt_file)) =>
           /\ files["vtt.txt"] = None
           /\ ~Done("vtt.txt")
    /\ \A out \in DialogueFiles : files[out] # None => EveryInputParsed(out)

(***************************************************************************)
(* Properties of the caption parser                                        *)
(***************************************************************************)

IsTiming(ln) == Contains(ARROW, ln)
IsBlank(ln) == Strip(ln) = <<>>

\* the index of the first blank line after line a of doc, or the index past
\* the end of doc when no blank line follows
CueEnd(doc, a) ==
    CHOOSE e \in (a + 1)..(Len(doc) + 1) :
        /\ e = Len(doc) + 1 \/ IsBlank(doc[e])
        /\ \A k \in (a + 1)..(e - 1) : ~IsBlank(doc[k])

\* the trimmed lines between line a and CueEnd(doc, a)
CueLines(doc, a) == [k \in 1..(CueEnd(doc, a) - a - 1) |-> Strip(doc[a + k])]

\* the cue loop of a caption converter is at work
InCueLoop == (Running("convert_vtt_to_txt") \/ Running("vtt_to_markdown")) /\ pc = "loop"

\* one round of the cue loop moves the index forward, never past the line
\* after the end
IndexAdvances ==
    (InCueLoop /\ pc' = "loop") => (i' > i /\ i' <= Len(lines) + 2)

\* C26: the first fragment of a caption conversion is parsed at the first
\* line containing "-->"; the raw text of every fragment is the trimmed lines
\* after its timestamp line up to the next blank line or the end of the
\* input, joined by single spaces; the next fragment is parsed at the first
\* line containing "-->" from that blank line on, so that no line before,
\* between or after the cues makes a fragment and no line is in two cues; a
\* finished conversion has left no such line unparsed; and every round of
\* the loop moves the index forward.
C26_CueText ==
    /\ [](\A out \in CaptionFiles :
            LET fr == hist[out].fragments
                from(j) == IF j = 1 THEN 1 ELSE CueEnd(vtt_file, fr[j - 1].at)
            IN  /\ \A j \in 1..Len(fr) :
                       /\ fr[j].at \in from(j)..Len(vtt_file)
                       /\ IsTiming(vtt_file[fr[j].at])
                       /\ \A k \in from(j)..(fr[j].at - 1) : ~IsTiming(vtt_file[k])
                       /\ fr[j].raw = Join(<<" ">>, CueLines(vtt_file, fr[j].at))
                /\ Done(out) =>
                       \A k \in from(Len(fr) + 1)..Len(vtt_file) : ~IsTiming(vtt_file[k]))
    /\ [][IndexAdvances]_vars

\* the padded document has been converted: two cues, the first of two lines,
\* the second holding a timestamp line as its text
C26_Witness ==
    /\ vtt_file = PaddedDocument
    /\ Done("vtt.txt")
    /\ Len(hist["vtt.txt"].fragments) = 2
    /\ hist["vtt.txt"].fragments[1].raw = <<"<", "v", " ", "A", ">", " ", "x", " ", "y">>
    /\ hist["vtt.txt"].fragments[2].raw = TIMING

(***************************************************************************)
(* Properties of the monitor and its sinks                                 *)
(***************************************************************************)

\* what a run did: its state, its status requests with their answers and
\* the state and sleep after each, its artifact requests and artifact writes
Trace(t) ==
    [state |-> seen[t].state,
     polls |-> seen[t].polls,
     artifact_requests |-> seen[t].artifact_requests,
     artifact_writes |-> seen[t].artifact_writes]

\* C22: of two runs that get the same status and artifact answers, one with
\* every log write and notification succeeding and one with a broken sink,
\* the ended runs have gone through the same states and made the same status
\* requests, artifact requests and artifact writes.
C22_SinkIndependent ==
    (Ended(1) /\ Ended(2)) => Trace(1) = Trace(2)

\* the step appends to the log of process t, as its newest entry, an entry
\* of its own with this message and the time of the step
Appended(t, message) ==
    /\ Len(Entries(t)') > Len(Entries(t))
    /\ LastEntry(t)' = [timestamp |-> proc'[t].now, message |-> message, by |-> t]

\* the entry that tells of the state a run has entered, polls being its
\* status requests so far
TransitionMsg(t, state, polls) ==
    IF state = "Polling" THEN StartedMsg(args[t].job_id, <<Digit(t)>>)
    ELSE IF state = "Succeeded" THEN CompletedSuccessfullyMsg
    ELSE IF state = "Failed"
    THEN FailureMsg(args[t].job_id, polls[Len(polls)].response.json)
    ELSE TimeoutMsg(args[t].job_id, args[t].timeout_hours)

\* the step on which process t comes to the outcome of its fetching
FetchEnds(t) ==
    /\ proc[t].pc = "report"
    /\ proc'[t].pc = "returned"

\* what a step does to the log of process t
LogStep(t) ==
    /\ Len(Entries(t)') >= Len(Entries(t))
    /\ SubSeq(Entries(t)', 1, Len(Entries(t))) = Entries(t)
    /\ StateOf(t)' # StateOf(t) => Appended(t, TransitionMsg(t, StateOf(t)', Polls(t)'))
    /\ FetchEnds(t) =>
           Appended(t, FinalMsg(args[t].job_id, seen'[t].artifact_writes))

\* C23: every step keeps the entries already in the job's log and appends
\* only after them; the step that takes a run to Polling, Succeeded, Failed
\* or TimedOut, and the step that comes to the outcome of its fetching,
\* appends as the newest entry an entry of its own that tells of it and
\* carries the time of the step.
C23_TransitionsLogged ==
    [][\A t \in DOMAIN args : LogStep(t)]_vars

\* a run has logged its start, its success and the outcome of its fetching,
\* after a check that logged that it was still monitoring
C23_Witness ==
    \E t \in DOMAIN args :
        /\ proc[t].pc = "returned"
        /\ StateOf(t) = "Succeeded"
        /\ Len(Entries(t)) >= 5
        /\ Entries(t)[1].message = StartedMsg(args[t].job_id, <<Digit(t)>>)
        /\ \E k \in 2..(Len(Entries(t)) - 1) :
               /\ Entries(t)[k].message = CompletedSuccessfullyMsg
               /\ Entries(t)[k].timestamp > 0
        /\ LastEntry(t).message = FinalMsg(args[t].job_id, seen[t].artifact_writes)

\* C24: no sleep of the polling loop, after a non-terminal answer or after
\* a failed request, begins at a moment when the elapsed time is above
\* timeout_seconds.
C24_NoWaitPastCeiling ==
    \A t \in DOMAIN args : \A k \in 1..Len(Polls(t)) :
        Polls(t)[k].slept > 0 => Polls(t)[k].ended <= args[t].timeout_seconds

\* every status request of the run so far has raised
AllRaised(t) == \A k \in 1..Len(Polls(t)) : Polls(t)[k].response.raised

\* C28: a status request that raises RequestException, for want of a
\* connection or for an HTTP error status, never takes the run to Failed: the
\* run was in Polling and stays there, and sleeps 60 s before its next
\* round; and a run whose every status request raises ends in TimedOut,
\* above the ceiling.
C28_ErrorsNeverFail ==
    /\ [](\A t \in DOMAIN args : \A k \in 1..Len(Polls(t)) :
            Polls(t)[k].response.raised =>
                /\ Polls(t)[k].before = "Polling"
                /\ Polls(t)[k].verdict = "Polling"
                /\ Polls(t)[k].slept = WaitOnError
                /\ (k = Len(Polls(t)) => StateOf(t) \in {"Polling", "TimedOut"}))
    /\ [](\A t \in DOMAIN args : AllRaised(t) => StateOf(t) # "Failed")
    /\ ([](\A t \in DOMAIN args : AllRaised(t))
           => <>(\A t \in DOMAIN args :
                    /\ proc[t].pc = "returned"
                    /\ StateOf(t) = "TimedOut"
                    /\ proc[t].now > args[t].timeout_seconds))

\* a run has timed out after two status requests that both raised
C28_Witness ==
    \E t \in DOMAIN args :
        /\ proc[t].pc = "returned"
        /\ StateOf(t) = "TimedOut"
        /\ Len(Polls(t)) = 2
        /\ AllRaised(t)

\* a received payload that carries a success and a failure signal
Conflicting(poll) ==
    /\ ~poll.response.raised
    /\ SuccessSignal(poll.response.json)
    /\ FailureSignal(poll.response.json)

\* C29: a payload with both a success and a failure signal takes the run to
\* Succeeded: it is the run's last status request, the run never is in
\* Failed, it goes on to the artifact requests, and once it has left the
\* function without an exception both artifacts have been requested.
C29_SuccessPrecedes ==
    \A t \in DOMAIN args : \A k \in 1..Len(Polls(t)) :
        Conflicting(Polls(t)[k]) =>
            /\ Polls(t)[k].verdict = "Succeeded"
            /\ k = Len(Polls(t))
            /\ StateOf(t) = "Succeeded"
            /\ proc[t].pc \in {"vtt", "csv", "report", "returned", "raised"}
            /\ proc[t].pc = "vtt" <=> seen[t].artifact_requests = <<>>
            /\ proc[t].pc = "returned" => seen[t].artifact_requests = <<VTT, CSV>>

\* a run whose answer was status completed with task_status FAILURE has
\* fetched both artifacts
C29_Witness ==
    \E t \in DOMAIN args :
        /\ proc[t].pc = "returned"
        /\ Len(Polls(t)) >= 1
        /\ LET poll == Polls(t)[Len(Polls(t))]
           IN  /\ Conflicting(poll)
               /\ poll.response.json = Payload(FAILURE, completed)
        /\ seen[t].artifact_writes = <<VTT, CSV>>

\* the rows the last run of the checker shows for the job of a process
RowsOf(t) == {row \in status_data.rows : row.job_id = Prefix(args[t].job_id)}

\* what a process was at when the checker last ran
Observed(t) == status_data.observed[t]

Dead == {"Dead (no updates)", "Dead (stale)"}

\* C25: whenever the checker runs while a monitor is alive and polling, the
\* last entry of the job's log is at most 3 minutes old and the row of the
\* job is not shown as Dead.
C25_LiveNeverDead ==
    \A t \in DOMAIN status_data.observed :
        Observed(t).pc = "poll" =>
            \A row \in RowsOf(t) :
                /\ status_data.current_time - mktime(row.timestamp).seconds
                       <= DeadAfterMinutes * 60
                /\ row.status \notin Dead

\* C27: whenever the checker runs after a monitor has returned, the row of
\* the job agrees with the outcome of the run: Failed is shown as Failed,
\* TimedOut as Timeout, and Completed is shown only for a run that reached
\* Succeeded and wrote at least one artifact.
C27_StatusAgrees ==
    \A t \in DOMAIN status_data.observed :
        Observed(t).pc = "returned" =>
            \A row \in RowsOf(t) :
                /\ Observed(t).state = "Failed" => row.status = "Failed"
                /\ Observed(t).state = "TimedOut" => row.status = "Timeout"
                /\ row.status = "Completed" =>
                       /\ Observed(t).state = "Succeeded"
                       /\ Observed(t).artifact_writes # <<>>

====
